---- MODULE Spec2Model ----
(***************************************************************************)
(* Model of packages/svelte/src/internal/client/proxy.js: the wrapper      *)
(* factory proxy(), the interception handlers of state_proxy_handler and   *)
(* the identity utilities get_proxied_value() and is().                    *)
(*                                                                         *)
(* A value is a pair <<tag, n>>:                                           *)
(*   <<"num", n>>    a number                                              *)
(*   <<"raw", i>>    a reference to object i itself                        *)
(*   <<"prx", i>>    a reference to the Proxy created for object i         *)
(*   <<"meta", i>>   a reference to the metadata record created for i      *)
(*   <<"fn", 0>>     a function inherited from the prototype               *)
(*   <<"bool", b>>   a boolean (1 true, 0 false)                           *)
(*   <<"undef", 0>>  undefined                                             *)
(*   <<"null", 0>>   null                                                  *)
(*   <<"uninit", 0>> the UNINITIALIZED sentinel                            *)
(*   <<"nocell", 0>> the result of Map.get for a key without a source      *)
(* The production build is modelled (DEV is false): the ownership calls    *)
(* of lines 35-40, 63-83 and 243-250 are compiled out.                     *)
(***************************************************************************)
EXTENDS Integers, Sequences, FiniteSets, TLC

VARIABLES
    target,     \* the raw objects: own properties, prototype, frozen flag
    marker,     \* marker[i]: the metadata record object i carries under STATE_SYMBOL (0: none)
    meta,       \* meta[i]: the metadata record created for object i (s, v, a, p, t)
    created,    \* created[i]: how many times line 49-61 ran for object i
    last,       \* the last mutating call: operation, arguments, result
    plain       \* an ordinary object that started with the root's contents and
                \* received the same writes, deletes and definitions

vars == <<target, marker, meta, created, last, plain>>

\* ------------------------------------------------------------------ bounds

\* structural_version is capped: mutating handlers stop at this version
MaxVersion == 2
\* the largest value written to an array's length
MaxLen == 2

\* ------------------------------------------------------------------ values

Num(n) == <<"num", n>>
Raw(i) == <<"raw", i>>
Prx(i) == <<"prx", i>>
Meta(i) == <<"meta", i>>
Bool(b) == <<"bool", IF b THEN 1 ELSE 0>>
Fn == <<"fn", 0>>
Undef == <<"undef", 0>>
Null == <<"null", 0>>
UNINITIALIZED == <<"uninit", 0>>
NoCell == <<"nocell", 0>>
Throw == <<"throw", 0>>
STATE_SYMBOL == "@@state"

\* the objects: 1 the root under test, 2 a plain object used as a property
\* value, 3 a frozen plain object, 4 a class instance
Root == 1
Objs == {1, 2, 3, 4}

IsRef(value) == value[1] \in {"raw", "prx"}
ObjOf(value) == value[2]

\* ------------------------------------------------------ the raw objects

\* A raw object: its own keys in Reflect.ownKeys order (the marker, a symbol,
\* is kept in `marker` and comes last), each key's descriptor kind ("data":
\* writable data property, "accessor": getter and setter over a backing
\* slot) and value, its prototype and whether it is frozen.
ObjectShape(a) ==
    [proto |-> "object", frozen |-> FALSE, keys |-> <<"a">>,
     kind |-> [k \in {"a"} |-> "data"],
     val |-> [k \in {"a"} |-> a]]

AccessorShape ==
    [proto |-> "object", frozen |-> FALSE, keys |-> <<"g">>,
     kind |-> [k \in {"g"} |-> "accessor"],
     val |-> [k \in {"g"} |-> Num(1)]]

ArrayShape ==
    [proto |-> "array", frozen |-> FALSE, keys |-> <<"0", "length">>,
     kind |-> [k \in {"0", "length"} |-> "data"],
     val |-> [k \in {"0", "length"} |-> Num(1)]]

EmptyShape(proto, frozen) ==
    [proto |-> proto, frozen |-> frozen, keys |-> <<>>,
     kind |-> [k \in {} |-> "data"], val |-> [k \in {} |-> Undef]]

\* {r: <object 2>} with r defined non-writable (and configurable)
ReadonlyShape ==
    [proto |-> "object", frozen |-> FALSE, keys |-> <<"r">>,
     kind |-> [k \in {"r"} |-> "readonly"],
     val |-> [k \in {"r"} |-> Raw(2)]]

\* the root is {a: <object 2>}, {get g() {..}, set g(v) {..}} or [1]
RootShapes == {ObjectShape(Raw(2)), AccessorShape, ArrayShape}

\* the keys inherited from Object.prototype / Array.prototype
Inherited == {"toString"}

SeqSet(q) == {q[n] : n \in 1..Len(q)}
OwnData(i) == SeqSet(target[i].keys)
\* Reflect.has(target, prop) and `prop in target`: own or inherited
InTarget(i, k) == k \in OwnData(i) \/ k \in Inherited \/ (k = STATE_SYMBOL /\ marker[i] # 0)
\* get_descriptor(target, prop)?.writable; the marker is defined writable (line 59)
Writable(i, k) ==
    \/ k \in OwnData(i) /\ target[i].kind[k] = "data"
    \/ k = STATE_SYMBOL /\ marker[i] # 0
\* Reflect.get(target, prop, receiver) / target[prop]
RawGet(i, k) ==
    IF k \in OwnData(i) THEN target[i].val[k]
    ELSE IF k \in Inherited THEN Fn
    ELSE IF k = STATE_SYMBOL /\ marker[i] # 0 THEN Meta(marker[i])
    ELSE Undef
\* Reflect.ownKeys(target): strings in own order, then the symbol
RawOwnKeys(i) == target[i].keys \o (IF marker[i] # 0 THEN <<STATE_SYMBOL>> ELSE <<>>)
\* target.length of an array
RawLength(i) == target[i].val["length"][2]

\* the keys the handlers are called with, per shape of root: the own
\* keys, a key the target lacks ("b", or the index past the array's end)
\* and, for objects, an inherited key
OpKeys(i) ==
    IF target[i].proto = "array" THEN {"0", "1", "length"}
    ELSE IF "g" \in OwnData(i) THEN {"g", "toString"}
    ELSE IF "r" \in OwnData(i) THEN {"r", "b"}
    ELSE {"a", "b", "toString"}

\* Number(prop) for the keys above; -1 stands for NaN (never an index)
KeyNum(k) ==
    CASE k = "0" -> 0 [] k = "1" -> 1 [] k = "2" -> 2 [] k = "3" -> 3
      [] k = "4" -> 4 [] OTHER -> -1
\* i + '' for a non-negative integer
IdxKey(n) == <<"0", "1", "2", "3", "4">>[n + 1]

\* ------------------------------------------------------------ metadata

NoMeta == [s |-> <<>>, v |-> 0, a |-> FALSE, p |-> Undef, t |-> Undef]

\* Map.get on metadata.s, a Map kept as its entries in insertion order
SGet(s, k) ==
    IF \E n \in 1..Len(s) : s[n][1] = k
    THEN s[CHOOSE n \in 1..Len(s) : s[n][1] = k][2]
    ELSE NoCell
\* SourceSet done as metadata.s.delete(k) and metadata.s.set(k, source(value)):
\* the key's source is removed and another one registered
SourceSet_reinsert(s, k, value) ==
    Append(SelectSeq(s, LAMBDA e : e[1] # k), <<k, value>>)

\* set(signal, value) on the source of key k, which exists: the entry stays
\* where it is in the Map
SourceSet(s, k, value) == [n \in 1..Len(s) |-> IF s[n][1] = k THEN <<k, value>> ELSE s[n]]
\* metadata.s.set(prop, source(value)) for a key without a source
SAdd(s, k, value) == Append(s, <<k, value>>)
SKeys(s) == [n \in 1..Len(s) |-> s[n][1]]

\* ------------------------------------------------------------ proxy()

\* is_frozen(value); a Proxy reports its target's state
Frozen(value) == target[ObjOf(value)].frozen
\* STATE_SYMBOL in value: an own property of a raw object; through a Proxy
\* the has trap answers true (line 197)
HasMarker(value) == value[1] = "prx" \/ marker[ObjOf(value)] # 0
\* value[STATE_SYMBOL]: through a Proxy the get trap forwards to the target (line 146)
MarkerOf(value) == marker[ObjOf(value)]

\* proxy_existing without line 34: any record the value carries is trusted
proxy_existing_any(value) ==
    /\ IsRef(value)
    /\ ~Frozen(value)
    /\ HasMarker(value)
    /\ MarkerOf(value) # 0

\* proxy_existing without the `metadata.t === value` test of line 34
proxy_existing_no_target(value) ==
    /\ IsRef(value)
    /\ ~Frozen(value)
    /\ HasMarker(value)
    /\ MarkerOf(value) # 0
    /\ meta[MarkerOf(value)].p = value

\* lines 27-34: value is an object that carries a metadata record of its own
proxy_existing(value) ==
    /\ IsRef(value)
    /\ ~Frozen(value)
    /\ HasMarker(value)
    /\ MarkerOf(value) # 0
    /\ \/ meta[MarkerOf(value)].t = value
       \/ meta[MarkerOf(value)].p = value

\* proxy_fresh without the prototype test of line 48
proxy_fresh_any_prototype(value) ==
    /\ IsRef(value)
    /\ value[1] = "raw"
    /\ ~Frozen(value)
    /\ ~proxy_existing(value)

\* lines 46-48: value is wrapped now. A Proxy always carries its own
\* record here, so only raw objects reach this point.
proxy_fresh(value) ==
    /\ IsRef(value)
    /\ value[1] = "raw"
    /\ ~Frozen(value)
    /\ ~proxy_existing(value)
    /\ target[ObjOf(value)].proto \in {"object", "array"}

\* lines 51-61: the record defined on the target under STATE_SYMBOL
NewMeta(i) ==
    [s |-> <<>>, v |-> 0, a |-> target[i].proto = "array", p |-> Prx(i), t |-> Raw(i)]

\* proxy(value): the value returned and the state it leaves
proxy(value) ==
    IF proxy_existing(value)
    THEN [value |-> meta[MarkerOf(value)].p, marker |-> marker, meta |-> meta,
          created |-> created]
    ELSE IF proxy_fresh(value)
    THEN [value |-> Prx(ObjOf(value)),
          marker |-> [marker EXCEPT ![ObjOf(value)] = ObjOf(value)],
          meta |-> [meta EXCEPT ![ObjOf(value)] = NewMeta(ObjOf(value))],
          created |-> [created EXCEPT ![ObjOf(value)] = @ + 1]]
    ELSE [value |-> value, marker |-> marker, meta |-> meta, created |-> created]

\* lines 96-98
update_version(v) == v + 1

\* get_proxied_value returning metadata.t in place of metadata.p
get_proxied_value_target(value) ==
    IF IsRef(value) /\ HasMarker(value) /\ MarkerOf(value) # 0
    THEN meta[MarkerOf(value)].t
    ELSE value

\* lines 320-328
get_proxied_value(value) ==
    IF IsRef(value) /\ HasMarker(value) /\ MarkerOf(value) # 0
    THEN meta[MarkerOf(value)].p
    ELSE value

\* lines 334-336
is(a, b) == get_proxied_value(a) = get_proxied_value(b)

\* ------------------------------------------------- handler results

\* the metadata record a handler works on: target[STATE_SYMBOL]
MetaOf(i) == meta[marker[i]]
Cell(i, k) == SGet(MetaOf(i).s, k)

\* line 155 without the get_descriptor(target, prop)?.writable test
get_creates_any(i, k) ==
    /\ k # STATE_SYMBOL
    /\ Cell(i, k) = NoCell

\* line 155: get creates a source
get_creates(i, k) ==
    /\ k # STATE_SYMBOL
    /\ Cell(i, k) = NoCell
    /\ (~InTarget(i, k) \/ Writable(i, k))

\* lines 144-166: what get returns
get_result(i, k) ==
    IF k = STATE_SYMBOL THEN RawGet(i, STATE_SYMBOL)
    ELSE LET value == IF Cell(i, k) # NoCell THEN Cell(i, k)
                      ELSE IF get_creates(i, k)
                      THEN proxy(IF InTarget(i, k) THEN RawGet(i, k) ELSE UNINITIALIZED).value
                      ELSE NoCell
         IN  IF value # NoCell
             THEN (IF value = UNINITIALIZED THEN Undef ELSE value)
             ELSE RawGet(i, k)

\* line 203
has_has(i, k) ==
    (Cell(i, k) # NoCell /\ Cell(i, k) # UNINITIALIZED) \/ InTarget(i, k)

\* lines 205-212: has creates a source
has_creates(i, k, effect) ==
    /\ k # STATE_SYMBOL
    /\ Cell(i, k) = NoCell
    /\ effect
    /\ (~has_has(i, k) \/ Writable(i, k))

\* lines 196-219: what has returns
has_result(i, k, effect) ==
    IF k = STATE_SYMBOL THEN TRUE
    ELSE IF Cell(i, k) # NoCell THEN Cell(i, k) # UNINITIALIZED /\ has_has(i, k)
    ELSE has_has(i, k)

\* line 131
delete_exists(i, k) ==
    IF Cell(i, k) # NoCell THEN Cell(i, k) # UNINITIALIZED ELSE InTarget(i, k)

\* set_has without line 238: presence taken from the target alone
set_has_raw(i, k) == InTarget(i, k)

\* lines 225-240: the key counts as present before the write
set_has(i, k) ==
    IF Cell(i, k) # NoCell THEN Cell(i, k) # UNINITIALIZED ELSE InTarget(i, k)

\* line 232: set creates a source
set_creates(i, k) == Cell(i, k) = NoCell /\ (~InTarget(i, k) \/ Writable(i, k))

\* lines 296-299: the raw keys kept
ownKeys_kept(i, k) == Cell(i, k) = NoCell \/ Cell(i, k) # UNINITIALIZED

\* line 302: a source's key is appended
ownKeys_pushed(i, k) == Cell(i, k) # UNINITIALIZED /\ ~InTarget(i, k)

\* lines 290-308: what ownKeys returns
ownKeys_result(i) ==
    SelectSeq(RawOwnKeys(i), LAMBDA k : ownKeys_kept(i, k))
        \o SelectSeq(SKeys(MetaOf(i).s), LAMBDA k : ownKeys_pushed(i, k))


\* a property descriptor; kind "none" stands for undefined, an accessor
\* descriptor has no value field
Descriptor(kind, value, writable, enumerable, configurable) ==
    [kind |-> kind, value |-> value, writable |-> writable,
     enumerable |-> enumerable, configurable |-> configurable]
NoDescriptor == Descriptor("none", Undef, FALSE, FALSE, FALSE)

\* Reflect.getOwnPropertyDescriptor(target, prop), line 169; an array's
\* length and the marker (lines 51-61) are not enumerable or configurable
RawDescriptor(i, k) ==
    IF k \in OwnData(i)
    THEN CASE target[i].kind[k] = "accessor" ->
                Descriptor("accessor", Undef, FALSE, TRUE, TRUE)
           [] target[i].kind[k] = "readonly" ->
                Descriptor("data", target[i].val[k], FALSE, TRUE, TRUE)
           [] OTHER ->
                IF target[i].proto = "array" /\ k = "length"
                THEN Descriptor("data", target[i].val[k], TRUE, FALSE, FALSE)
                ELSE Descriptor("data", target[i].val[k], TRUE, TRUE, TRUE)
    ELSE IF k = STATE_SYMBOL /\ marker[i] # 0
    THEN Descriptor("data", Meta(marker[i]), TRUE, FALSE, FALSE)
    ELSE NoDescriptor

\* lines 168-194: what getOwnPropertyDescriptor returns
getOwnPropertyDescriptor_result(i, k) ==
    LET descriptor == RawDescriptor(i, k)
    IN  IF descriptor.kind = "data"
        THEN (IF Cell(i, k) # NoCell
              THEN [descriptor EXCEPT !.value = Cell(i, k)]
              ELSE descriptor)
        ELSE IF descriptor.kind = "none"
        THEN (IF Cell(i, k) # NoCell /\ Cell(i, k) # UNINITIALIZED
              THEN Descriptor("data", Cell(i, k), TRUE, TRUE, TRUE)
              ELSE descriptor)
        ELSE descriptor

\* ------------------------------------------- the ordinary object

\* The reference of the transparency contract: an ordinary JavaScript
\* object or array, kept as its own properties <<key, value>> in creation
\* order. It receives every set, deleteProperty and accepted defineProperty
\* the root's Proxy receives.
PlainOf(shape) == [n \in 1..Len(shape.keys) |-> <<shape.keys[n], shape.val[shape.keys[n]]>>]
PlainHas(k) == SGet(plain, k) # NoCell \/ k \in Inherited
PlainGet(k) ==
    IF SGet(plain, k) # NoCell THEN SGet(plain, k)
    ELSE IF k \in Inherited THEN Fn
    ELSE Undef
\* own keys: the indices ascending, then the other keys in creation order
PlainKeys ==
    SelectSeq(<<"0", "1", "2", "3", "4">>, LAMBDA k : SGet(plain, k) # NoCell)
        \o SelectSeq(SKeys(plain), LAMBDA k : KeyNum(k) < 0)
PlainRemove(q, k) == SelectSeq(q, LAMBDA e : e[1] # k)
\* o[k] = value; an array keeps its length past its last index and drops
\* the indices at or past a length written to it
PlainSet(isArray, k, value) ==
    LET q1 == IF SGet(plain, k) # NoCell THEN SourceSet(plain, k, value)
              ELSE SAdd(plain, k, value)
        q2 == IF isArray /\ k = "length"
              THEN SelectSeq(q1, LAMBDA e : KeyNum(e[1]) < value[2])
              ELSE q1
    IN  IF isArray /\ KeyNum(k) >= 0 /\ KeyNum(k) >= SGet(q2, "length")[2]
        THEN SourceSet(q2, "length", Num(KeyNum(k) + 1))
        ELSE q2
\* delete o[k]
PlainDelete(k) == PlainRemove(plain, k)

\* ------------------------------------------------------------ actions

\* last: the last call of a mutating handler (set, deleteProperty,
\* defineProperty), with its arguments and result, or the last copy of a
\* marker (CopyMarker). What proxy,
\* get_proxied_value, is, get, has and ownKeys return is a function of the
\* state they are called in (proxy(value).value, get_proxied_value, is,
\* get_result, has_result, ownKeys_result), so they leave it.
Call(op, k, value, res) == [op |-> op, key |-> k, val |-> value, res |-> res]

\* a Proxy for object i has been handed out
Wrapped(i) == created[i] > 0

\* the values the program is called with
Primitives == {Num(7), Null, Undef}
WrapValues == Primitives \cup {Raw(i) : i \in Objs} \cup {Prx(i) : i \in {j \in Objs : Wrapped(j)}}
WriteValues == {Num(7), Raw(2)}
LengthValues == {Num(n) : n \in 0..MaxLen}
SetValues(i, k) ==
    IF target[i].proto = "array" /\ k = "length" THEN LengthValues ELSE WriteValues
\* the value of a descriptor: an accessor descriptor has none
DefineValues(i, k, descriptor) ==
    IF descriptor = "accessor" THEN {Undef} ELSE SetValues(i, k)

\* proxy(value), lines 26-90
Wrap(value) ==
    LET r == proxy(value)
    IN  /\ marker' = r.marker
        /\ meta' = r.meta
        /\ created' = r.created
        /\ UNCHANGED <<target, last, plain>>

\* state_proxy_handler.get, lines 144-166
get(i, k) ==
    LET m == marker[i]
        r == proxy(IF InTarget(i, k) THEN RawGet(i, k) ELSE UNINITIALIZED)
    IN  /\ Wrapped(i)
        /\ IF get_creates(i, k)
           THEN /\ marker' = r.marker
                /\ created' = r.created
                /\ meta' = [r.meta EXCEPT ![m].s = SAdd(@, k, r.value)]
           ELSE UNCHANGED <<marker, meta, created>>
        /\ UNCHANGED <<target, last, plain>>

\* state_proxy_handler.has, lines 196-219; effect: current_effect !== null
has(i, k, effect) ==
    LET m == marker[i]
        r == IF has_has(i, k)
             THEN proxy(RawGet(i, k))
             ELSE [value |-> UNINITIALIZED, marker |-> marker, meta |-> meta,
                   created |-> created]
    IN  /\ Wrapped(i)
        /\ IF has_creates(i, k, effect)
           THEN /\ marker' = r.marker
                /\ created' = r.created
                /\ meta' = [r.meta EXCEPT ![m].s = SAdd(@, k, r.value)]
           ELSE UNCHANGED <<marker, meta, created>>
        /\ UNCHANGED <<target, last, plain>>

\* state_proxy_handler.ownKeys, lines 290-308
ownKeys(i) ==
    /\ Wrapped(i)
    /\ UNCHANGED <<target, marker, meta, created, last, plain>>

\* state_proxy_handler.getOwnPropertyDescriptor, lines 168-194
getOwnPropertyDescriptor(i, k) ==
    /\ Wrapped(i)
    /\ UNCHANGED <<target, marker, meta, created, last, plain>>

\* state_proxy_handler.deleteProperty, lines 127-142: what the call
\* returns and the state it leaves
deleteProperty_apply(i, k) ==
    LET m == marker[i]
        exists == delete_exists(i, k)
    IN  [res |-> Bool(exists),
         marker |-> marker,
         created |-> created,
         meta |-> [meta EXCEPT
                    ![m].s = IF Cell(i, k) # NoCell THEN SourceSet(@, k, UNINITIALIZED) ELSE @,
                    ![m].v = IF exists THEN update_version(@) ELSE @],
         target |-> target]

\* a call of state_proxy_handler.deleteProperty on the Proxy of object i
deleteProperty(i, k) ==
    /\ Wrapped(i)
    /\ meta[marker[i]].v < MaxVersion
    /\ \E r \in {deleteProperty_apply(i, k)} :
        /\ meta' = r.meta
        /\ last' = Call("deleteProperty", k, Undef, r.res)
        /\ plain' = PlainDelete(k)
        /\ UNCHANGED <<target, marker, created>>

\* lines 252-258: variable.length = value clears the sources of the
\* indices value .. target.length - 1
set_truncate(i, s, value) ==
    [n \in 1..Len(s) |->
        IF \E j \in value[2]..(RawLength(i) - 1) : s[n][1] = IdxKey(j)
        THEN <<s[n][1], UNINITIALIZED>>
        ELSE s[n]]

\* lines 272-282: a new index at or past the length source's value moves it
set_length(s, k) ==
    IF /\ SGet(s, "length") # NoCell
       /\ KeyNum(k) >= 0
       /\ KeyNum(k) >= SGet(s, "length")[2]
    THEN SourceSet(s, "length", Num(KeyNum(k) + 1))
    ELSE s

\* state_proxy_handler.set, lines 221-288: the state the call leaves (it
\* returns true)
set_apply(i, k, value) ==
    LET m == marker[i]
        present == set_has(i, k)
        r == IF Cell(i, k) # NoCell \/ set_creates(i, k)
             THEN proxy(value)
             ELSE [value |-> value, marker |-> marker, meta |-> meta,
                   created |-> created]
        s1 == IF Cell(i, k) # NoCell THEN SourceSet(r.meta[m].s, k, r.value)
              ELSE IF set_creates(i, k) THEN SAdd(r.meta[m].s, k, r.value)
              ELSE r.meta[m].s
        s2 == IF meta[m].a /\ k = "length" THEN set_truncate(i, s1, value) ELSE s1
        s3 == IF ~present /\ meta[m].a /\ k # STATE_SYMBOL THEN set_length(s2, k) ELSE s2
    IN  [res |-> Bool(TRUE),
         marker |-> r.marker,
         created |-> r.created,
         meta |-> [r.meta EXCEPT
                    ![m].s = s3,
                    ![m].v = IF ~present THEN update_version(@) ELSE @],
         \* lines 260-265: an own accessor's setter stores the value
         target |-> IF k \in OwnData(i) /\ target[i].kind[k] = "accessor"
                    THEN [target EXCEPT ![i].val[k] = value]
                    ELSE target]

\* a call of state_proxy_handler.set on the Proxy of object i
set(i, k, value) ==
    /\ Wrapped(i)
    /\ meta[marker[i]].v < MaxVersion
    /\ \E r \in {set_apply(i, k, value)} :
        /\ marker' = r.marker
        /\ created' = r.created
        /\ meta' = r.meta
        /\ target' = r.target
        /\ last' = Call("set", k, value, r.res)
        /\ plain' = PlainSet(meta[marker[i]].a, k, value)

\* the descriptors defineProperty is called with: a plain value descriptor,
\* or one of the four kinds lines 103-110 reject
Descriptors == {"value", "accessor", "nonconfigurable", "nonenumerable", "nonwritable"}

\* lines 103-108 rejecting only a descriptor without a value field
descriptor_rejected_no_value(descriptor) == descriptor = "accessor"

\* lines 103-108: the descriptor has no value field, or configurable,
\* enumerable or writable is false
descriptor_rejected(descriptor) ==
    descriptor \in {"accessor", "nonconfigurable", "nonenumerable", "nonwritable"}

\* e.state_descriptors_fixed() of errors.js signals the error: the handler
\* is left at line 109
state_descriptors_fixed == Throw

\* state_proxy_handler.defineProperty, lines 102-125: what the call returns
\* (or that it throws) and the state it leaves
defineProperty_apply(i, k, descriptor, value) ==
    LET m == marker[i]
        r == IF Cell(i, k) # NoCell
             THEN proxy(value)
             ELSE [value |-> value, marker |-> marker, meta |-> meta,
                   created |-> created]
    IN  IF descriptor_rejected(descriptor)
        THEN [res |-> state_descriptors_fixed, marker |-> marker, meta |-> meta,
              created |-> created, target |-> target]
        ELSE [res |-> Bool(TRUE),
              marker |-> r.marker,
              meta |-> [r.meta EXCEPT
                         ![m].s = IF Cell(i, k) = NoCell THEN SAdd(@, k, r.value)
                                  ELSE SourceSet(@, k, r.value)],
              created |-> r.created,
              target |-> target]

\* a call of state_proxy_handler.defineProperty on the Proxy of object i
defineProperty(i, k, descriptor, value) ==
    /\ Wrapped(i)
    /\ meta[marker[i]].v < MaxVersion
    /\ \E r \in {defineProperty_apply(i, k, descriptor, value)} :
        /\ marker' = r.marker
        /\ created' = r.created
        /\ meta' = r.meta
        /\ target' = r.target
        /\ IF r.res = Throw
           THEN /\ last' = Call("defineProperty", "", Undef, Throw)
                /\ UNCHANGED plain
           ELSE /\ last' = Call("defineProperty", k, value, r.res)
                /\ plain' = PlainSet(meta[marker[i]].a, k, value)

\* b[STATE_SYMBOL] = a[STATE_SYMBOL] for every key of Reflect.ownKeys(a):
\* the marker of object i, which has one, is copied onto another object j
\* that has none and is not frozen (the case lines 32-34 speak of)
CopyMarker(i, j) ==
    /\ i # j
    /\ marker[i] # 0
    /\ marker[j] = 0
    /\ ~target[j].frozen
    /\ marker' = [marker EXCEPT ![j] = marker[i]]
    /\ last' = Call("copy", "", Raw(j), Meta(marker[i]))
    /\ UNCHANGED <<target, meta, created, plain>>

\* ------------------------------------------------------ specification

Init ==
    /\ target \in {[i \in Objs |->
            CASE i = 1 -> shape
              [] i = 2 -> EmptyShape("object", FALSE)
              [] i = 3 -> EmptyShape("object", TRUE)
              [] OTHER -> EmptyShape("other", FALSE)] : shape \in RootShapes}
    /\ marker = [i \in Objs |-> 0]
    /\ meta = [i \in Objs |-> NoMeta]
    /\ created = [i \in Objs |-> 0]
    /\ last = Call("init", "", Undef, Undef)
    /\ plain = PlainOf(target[Root])

\* the keys deleteProperty is called with: deleting an array's length is
\* rejected by the Proxy itself (a non-configurable own property)
DeleteKeys(i) == OpKeys(i) \ {"length"}

Next ==
    \/ \E value \in WrapValues : Wrap(value)
    \/ \E k \in OpKeys(Root) \cup {STATE_SYMBOL} : get(Root, k)
    \/ \E k \in OpKeys(Root) \cup {STATE_SYMBOL}, effect \in BOOLEAN : has(Root, k, effect)
    \/ ownKeys(Root)
    \/ \E k \in OpKeys(Root) \cup {STATE_SYMBOL} : getOwnPropertyDescriptor(Root, k)
    \/ \E k \in DeleteKeys(Root) : deleteProperty(Root, k)
    \/ \E k \in OpKeys(Root) : \E value \in SetValues(Root, k) : set(Root, k, value)
    \/ \E k \in OpKeys(Root), d \in Descriptors :
          \E value \in DefineValues(Root, k, d) : defineProperty(Root, k, d, value)

Spec == Init /\ [][Next]_vars

\* the specification of the read, write, delete, has and enumerate calls
\* alone (no defineProperty)
NextRW ==
    \/ \E value \in WrapValues : Wrap(value)
    \/ \E k \in OpKeys(Root) \cup {STATE_SYMBOL} : get(Root, k)
    \/ \E k \in OpKeys(Root) \cup {STATE_SYMBOL}, effect \in BOOLEAN : has(Root, k, effect)
    \/ ownKeys(Root)
    \/ \E k \in DeleteKeys(Root) : deleteProperty(Root, k)
    \/ \E k \in OpKeys(Root) : \E value \in SetValues(Root, k) : set(Root, k, value)

SpecRW == Init /\ [][NextRW]_vars

\* the same calls with the marker copied between objects
NextCopy ==
    \/ \E value \in WrapValues : Wrap(value)
    \/ \E k \in OpKeys(Root) \cup {STATE_SYMBOL} : get(Root, k)
    \/ \E k \in OpKeys(Root) \cup {STATE_SYMBOL}, effect \in BOOLEAN : has(Root, k, effect)
    \/ ownKeys(Root)
    \/ \E k \in DeleteKeys(Root) : deleteProperty(Root, k)
    \/ \E k \in OpKeys(Root) : \E value \in SetValues(Root, k) : set(Root, k, value)
    \/ \E i, j \in Objs : CopyMarker(i, j)

SpecCopy == Init /\ [][NextCopy]_vars

\* Two runs of the same mutating calls. Twin is a second object built like
\* the root; both are wrapped at the start. Every set, deleteProperty and
\* defineProperty is made on both Proxies with the same arguments; the
\* observing handlers (get, has, getOwnPropertyDescriptor, ownKeys) are
\* called on the root's Proxy only.
Twin == 5

InitObs ==
    /\ target \in {[i \in Objs \cup {Twin} |->
            CASE i = Root \/ i = Twin -> shape
              [] i = 2 -> EmptyShape("object", FALSE)
              [] i = 3 -> EmptyShape("object", TRUE)
              [] OTHER -> EmptyShape("other", FALSE)] : shape \in RootShapes}
    /\ marker = [i \in Objs \cup {Twin} |-> IF i \in {Root, Twin} THEN i ELSE 0]
    /\ meta = [i \in Objs \cup {Twin} |-> IF i \in {Root, Twin} THEN NewMeta(i) ELSE NoMeta]
    /\ created = [i \in Objs \cup {Twin} |-> IF i \in {Root, Twin} THEN 1 ELSE 0]
    /\ last = Call("init", "", Undef, Undef)
    /\ plain = PlainOf(target[Root])

\* the state after the same handler call on the root (left as r1) and on
\* the twin (left as r2): each Proxy's record and target from its own call,
\* an object the calls wrapped (the value written) from the call that did
Both(op, k, value, r1, r2) ==
    LET pick(x) == IF x = Twin THEN r2
                   ELSE IF x = Root THEN r1
                   ELSE IF r1.created[x] > created[x] THEN r1
                   ELSE r2
    IN  /\ marker' = [x \in DOMAIN marker |-> pick(x).marker[x]]
        /\ created' = [x \in DOMAIN created |-> pick(x).created[x]]
        /\ meta' = [x \in DOMAIN meta |-> pick(x).meta[x]]
        /\ target' = [x \in DOMAIN target |-> pick(x).target[x]]
        /\ last' = Call(op, k, value, r1.res)
        /\ UNCHANGED plain

setBoth(k, value) ==
    /\ meta[Root].v < MaxVersion /\ meta[Twin].v < MaxVersion
    /\ \E r1 \in {set_apply(Root, k, value)}, r2 \in {set_apply(Twin, k, value)} :
            Both("set", k, value, r1, r2)

deletePropertyBoth(k) ==
    /\ meta[Root].v < MaxVersion /\ meta[Twin].v < MaxVersion
    /\ \E r1 \in {deleteProperty_apply(Root, k)}, r2 \in {deleteProperty_apply(Twin, k)} :
            Both("deleteProperty", k, Undef, r1, r2)

definePropertyBoth(k, value) ==
    /\ meta[Root].v < MaxVersion /\ meta[Twin].v < MaxVersion
    /\ \E r1 \in {defineProperty_apply(Root, k, "value", value)},
          r2 \in {defineProperty_apply(Twin, k, "value", value)} :
            Both("defineProperty", k, value, r1, r2)

NextObs ==
    \/ \E k \in OpKeys(Root) : get(Root, k)
    \/ \E k \in OpKeys(Root), effect \in BOOLEAN : has(Root, k, effect)
    \/ \E k \in OpKeys(Root) : getOwnPropertyDescriptor(Root, k)
    \/ ownKeys(Root)
    \/ \E k \in DeleteKeys(Root) : deletePropertyBoth(k)
    \/ \E k \in OpKeys(Root) : \E value \in SetValues(Root, k) : setBoth(k, value)
    \/ \E k \in OpKeys(Root) : \E value \in SetValues(Root, k) : definePropertyBoth(k, value)

SpecObs == InitObs /\ [][NextObs]_vars

\* the same calls on a root that may also be {r: <object 2>}, r non-writable
InitNested ==
    /\ target \in {[i \in Objs |->
            CASE i = 1 -> shape
              [] i = 2 -> EmptyShape("object", FALSE)
              [] i = 3 -> EmptyShape("object", TRUE)
              [] OTHER -> EmptyShape("other", FALSE)] :
                shape \in RootShapes \cup {ReadonlyShape}}
    /\ marker = [i \in Objs |-> 0]
    /\ meta = [i \in Objs |-> NoMeta]
    /\ created = [i \in Objs |-> 0]
    /\ last = Call("init", "", Undef, Undef)
    /\ plain = PlainOf(target[Root])

SpecNested == InitNested /\ [][NextRW]_vars

\* ------------------------------------------------------------ properties

\* a value with a Proxy replaced by the object it stands for
Norm(value) == IF value[1] = "prx" THEN Raw(value[2]) ELSE value
\* what a read returns for a stored value: its Proxy when it is a plain,
\* unfrozen object or array, the value itself otherwise
Stored(value) ==
    IF IsRef(value) /\ ~Frozen(value) /\ target[ObjOf(value)].proto \in {"object", "array"}
    THEN Prx(ObjOf(value))
    ELSE value
NoDuplicates(q) == \A a, b \in 1..Len(q) : q[a] = q[b] => a = b
Drop(q, k) == SelectSeq(q, LAMBDA e : e # k)
IsArrayRoot == target[Root].proto = "array"
IndexKeys == {k \in OpKeys(Root) : KeyNum(k) >= 0}
\* the keys of the root for which has answers true
PresentKeys == {k \in OpKeys(Root) : has_result(Root, k, FALSE)}
Version == MetaOf(Root).v

\* C1 (transparency): after the same sequence of reads, writes, deletes, has
\* and enumerate calls, every read, has and key enumeration on the Proxy
\* gives what it gives on the ordinary object (a Proxy standing for its
\* object, the marker symbol left out). What deleteProperty itself returns
\* is the subject of C5 and is left out here.
C1_Transparent ==
    Wrapped(Root) =>
        /\ \A k \in OpKeys(Root) : Norm(get_result(Root, k)) = Norm(PlainGet(k))
        /\ \A k \in OpKeys(Root), effect \in BOOLEAN : has_result(Root, k, effect) = PlainHas(k)
        /\ Drop(ownKeys_result(Root), STATE_SYMBOL) = PlainKeys

\* C2 (identity stability): in every reachable state each object has had at
\* most one metadata record and Proxy created for it; a wrapped object
\* carries its own record, whose target and wrapper are the object and its
\* Proxy; and proxy() of the object or of its Proxy returns that Proxy and
\* creates nothing.
C2_IdentityStable ==
    \A i \in Objs :
        /\ created[i] <= 1
        /\ marker[i] \in {0, i}
        /\ Wrapped(i) =>
            /\ marker[i] = i
            /\ meta[i].t = Raw(i) /\ meta[i].p = Prx(i)
            /\ \A value \in {Raw(i), Prx(i)} :
                /\ proxy(value).value = Prx(i)
                /\ proxy(proxy(value).value).value = Prx(i)
                /\ proxy(value).meta = meta
                /\ proxy(value).marker = marker
                /\ proxy(value).created = created

\* handlers have run on the root's Proxy, a nested object has been wrapped
\* by them, and the root is then wrapped again
C2_Witness ==
    /\ Wrapped(Root) /\ Wrapped(2)
    /\ Len(MetaOf(Root).s) >= 2
    /\ last.op = "set"

\* C3 as claimed (unwrap round trip): get_proxied_value of the Proxy of a
\* wrapped plain object o is o.
C3_UnwrapGivesTarget ==
    \A i \in Objs : Wrapped(i) => get_proxied_value(proxy(Raw(i)).value) = Raw(i)

\* C3 amended: get_proxied_value of the Proxy of a wrapped plain object o is
\* that Proxy, as is get_proxied_value(o); the two are equal under is().
C3_UnwrapGivesProxy ==
    \A i \in Objs : Wrapped(i) =>
        /\ get_proxied_value(proxy(Raw(i)).value) = proxy(Raw(i)).value
        /\ get_proxied_value(Raw(i)) = proxy(Raw(i)).value
        /\ get_proxied_value(proxy(Raw(i)).value) # Raw(i)
        /\ is(get_proxied_value(proxy(Raw(i)).value), Raw(i))

C3_Witness == Wrapped(Root) /\ Wrapped(2) /\ created[Root] = 1

\* C4 (read/write round trip): after set(k, v) on a key that is not an own
\* accessor, get(k) returns v (its Proxy when v is wrappable) and has(k)
\* is true.
C4_ReadAfterWrite ==
    (Wrapped(Root) /\ last.op = "set" /\ ~("g" \in OwnData(Root) /\ last.key = "g")) =>
        /\ get_result(Root, last.key) = Stored(last.val)
        /\ \A effect \in BOOLEAN : has_result(Root, last.key, effect)

\* C5 (deletion takes effect): after deleteProperty(k) on a key that is not
\* inherited, has(k) is false, get(k) returns undefined, k is not among
\* the enumerated keys, and a second deleteProperty(k) would return false.
C5_DeleteTakesEffect ==
    (Wrapped(Root) /\ last.op = "deleteProperty" /\ last.key \notin Inherited) =>
        /\ \A effect \in BOOLEAN : ~has_result(Root, last.key, effect)
        /\ get_result(Root, last.key) = Undef
        /\ last.key \notin SeqSet(ownKeys_result(Root))
        /\ ~delete_exists(Root, last.key)

\* C6 (array length truncation): after set("length", n) on an array, every
\* index >= n is absent for has and get, and get("length") returns n.
C6_LengthTruncates ==
    (Wrapped(Root) /\ IsArrayRoot /\ last.op = "set" /\ last.key = "length") =>
        /\ get_result(Root, "length") = last.val
        /\ \A k \in IndexKeys : KeyNum(k) >= last.val[2] =>
              /\ get_result(Root, k) = Undef
              /\ \A effect \in BOOLEAN : ~has_result(Root, k, effect)

\* C7 (array extension): after set(i, v) on an index i of an array,
\* get("length") returns at least i + 1.
C7_IndexExtendsLength ==
    (Wrapped(Root) /\ IsArrayRoot /\ last.op = "set" /\ KeyNum(last.key) >= 0) =>
        get_result(Root, "length")[2] >= KeyNum(last.key) + 1

\* C8 (structural version follows presence): in every step on the wrapped
\* root, structural_version changes exactly when the set of keys for which
\* has answers true changes.
C8_VersionFollowsPresence ==
    [][Wrapped(Root) => ((Version' # Version) <=> (PresentKeys' # PresentKeys))]_vars

\* C9 (structural version under write): a set of a key for which has
\* answers true leaves structural_version unchanged; a set of a key for
\* which has answers false (never present, or tombstoned) raises it by one.
C9_VersionUnderWrite ==
    [][(last'.op = "set" /\ set(Root, last'.key, last'.val)) =>
          Version' = IF has_result(Root, last'.key, FALSE) THEN Version ELSE Version + 1]_vars

\* the key "a" was read, deleted (version 1) and written again: the write
\* of the tombstoned key raised structural_version to 2
C9_Witness ==
    /\ Wrapped(Root) /\ last.op = "set" /\ last.key = "a"
    /\ Version = 2
    /\ SKeys(MetaOf(Root).s) = <<"a">>

\* C10 (enumeration content and order): ownKeys returns the target's own
\* keys in order without those whose source holds the tombstone, then the
\* keys with a live source that are not own keys of the target, in the
\* sources' insertion order, and lists no key twice.
C10_OwnKeysContent ==
    Wrapped(Root) =>
        /\ ownKeys_result(Root) =
              SelectSeq(RawOwnKeys(Root), LAMBDA k : Cell(Root, k) # UNINITIALIZED)
                \o SelectSeq(SKeys(MetaOf(Root).s),
                      LAMBDA k : /\ Cell(Root, k) # UNINITIALIZED
                                 /\ k \notin SeqSet(RawOwnKeys(Root)))
        /\ NoDuplicates(ownKeys_result(Root))

\* a raw object proxy() would wrap: not frozen, a bare object or array
IsWrappable(value) ==
    /\ value[1] = "raw"
    /\ ~Frozen(value)
    /\ target[ObjOf(value)].proto \in {"object", "array"}
CellValues(i) == {MetaOf(i).s[n][2] : n \in 1..Len(MetaOf(i).s)}

\* C11 as claimed (nested reactivity on demand): proxy() creates no source;
\* no read of any key returns a raw wrappable object, and a key whose value
\* on the target is a wrappable object reads as that object's Proxy until
\* it is written or deleted; a read does not change what the next read
\* returns; and no source holds a raw wrappable object.
C11_NestedWrapped ==
    [][Wrapped(Root)' =>
        /\ \A value \in WrapValues : Wrap(value) =>
              \A i \in Objs : meta'[i].s = IF created'[i] > created[i] THEN <<>> ELSE meta[i].s
        /\ \A k \in OpKeys(Root) : ~IsWrappable(get_result(Root, k))'
        /\ \A k \in OpKeys(Root) :
              (Wrapped(Root) /\ get(Root, k)) => get_result(Root, k)' = get_result(Root, k)
        /\ \A value \in CellValues(Root)' : ~IsWrappable(value)']_vars

\* C11 amended: the same for the keys the get handler gives a source (a key
\* with a source, a key the target lacks, an own writable data property);
\* an own accessor or non-writable property, or an inherited one, without
\* a source is forwarded to the target as it is.
C11_NestedWrappedWritable ==
    [][Wrapped(Root)' =>
        /\ \A value \in WrapValues : Wrap(value) =>
              \A i \in Objs : meta'[i].s = IF created'[i] > created[i] THEN <<>> ELSE meta[i].s
        /\ \A k \in OpKeys(Root) :
              IF Cell(Root, k)' # NoCell \/ ~InTarget(Root, k)' \/ Writable(Root, k)'
              THEN /\ ~IsWrappable(get_result(Root, k))'
                   /\ (Cell(Root, k)' = NoCell /\ IsWrappable(RawGet(Root, k))') =>
                         get_result(Root, k)' = Prx(ObjOf(RawGet(Root, k)'))
              ELSE get_result(Root, k)' = RawGet(Root, k)'
        /\ \A k \in OpKeys(Root) :
              (Wrapped(Root) /\ get(Root, k)) => get_result(Root, k)' = get_result(Root, k)
        /\ \A value \in CellValues(Root)' : ~IsWrappable(value)']_vars

\* the nested object was read through the root (which wrapped it and gave
\* the key a source holding its Proxy) and then written back
C11_Witness ==
    /\ Wrapped(Root) /\ Wrapped(2)
    /\ "a" \in OwnData(Root)
    /\ Cell(Root, "a") = Prx(2)
    /\ last.op = "set" /\ last.key = "a" /\ last.val = Raw(2)
    /\ get_result(Root, "a") = Prx(2)

\* C12 (unsupported descriptor rejected without effect): in every reachable
\* state, a defineProperty call with an accessor, non-configurable,
\* non-enumerable or non-writable descriptor signals the error and leaves
\* the sources, their values, structural_version, the metadata records and
\* the targets as they were.
C12_RejectedWithoutEffect ==
    Wrapped(Root) =>
        \A k \in OpKeys(Root), d \in Descriptors \ {"value"} :
            \A value \in DefineValues(Root, k, d) :
                LET r == defineProperty_apply(Root, k, d, value)
                IN  /\ r.res = Throw
                    /\ r.meta = meta
                    /\ r.target = target
                    /\ r.marker = marker /\ r.created = created

\* a defineProperty call was rejected on a root that has sources and a
\* raised structural_version
C12_Witness ==
    /\ Wrapped(Root)
    /\ last.op = "defineProperty" /\ last.res = Throw
    /\ Len(MetaOf(Root).s) >= 2
    /\ Version >= 1

\* the values is() is called with: primitives, the objects, the Proxies
\* handed out
IsValues == Primitives \cup {Undef} \cup {Raw(i) : i \in Objs}
                \cup {Prx(i) : i \in {j \in Objs : Wrapped(j)}}
\* a and b are the same primitive, or stand (as target or Proxy) for the
\* same object
SameOriginal(a, b) == a = b \/ (IsRef(a) /\ IsRef(b) /\ ObjOf(a) = ObjOf(b))

\* C13 (equality unwrapping): is(proxy(o), o) is true for every wrapped
\* object o; is(proxy(o1), proxy(o2)) is false for distinct objects; and
\* is(a, b) is true only when a and b are the same primitive or stand for
\* the same object, also after a marker was copied onto another object.
C13_IsSameOriginal ==
    /\ \A i \in Objs : Wrapped(i) => is(proxy(Raw(i)).value, Raw(i))
    /\ \A i, j \in Objs : (Wrapped(i) /\ Wrapped(j) /\ i # j) =>
            ~is(proxy(Raw(i)).value, proxy(Raw(j)).value)
    /\ \A a, b \in IsValues : is(a, b) => SameOriginal(a, b)

\* get_prototype_of(value) is object_prototype or array_prototype (line 48);
\* a Proxy has its target's prototype
PlainPrototype(value) == target[ObjOf(value)].proto \in {"object", "array"}

\* C14 (pass-through): proxy(value) returns value itself and creates no
\* metadata record and no Proxy when value is not an object, is null, is
\* frozen, or has a prototype other than Object.prototype and
\* Array.prototype; what it returns is a Proxy only for an unfrozen plain
\* object or array.
C14_PassThrough ==
    \A value \in WrapValues :
        LET r == proxy(value)
        IN  /\ (~IsRef(value) \/ Frozen(value) \/ ~PlainPrototype(value)) =>
                  /\ r.value = value
                  /\ r.meta = meta /\ r.marker = marker /\ r.created = created
            /\ r.value[1] = "prx" =>
                  /\ IsRef(value)
                  /\ ~Frozen(value) /\ PlainPrototype(value)
                  /\ ObjOf(r.value) = ObjOf(value)

\* the root is wrapped and has sources, a class instance carries a copy of
\* its marker, and neither the class instance nor the frozen object has
\* been given a Proxy
C14_Witness ==
    /\ Wrapped(Root) /\ Len(MetaOf(Root).s) >= 1
    /\ marker[4] = Root
    /\ created[3] = 0 /\ created[4] = 0
    /\ proxy(Raw(4)).value = Raw(4) /\ proxy(Raw(3)).value = Raw(3)

\* C15 (defineProperty behaves like write): in every reachable state, for
\* every key k and value v, defineProperty(k, {value: v, writable,
\* enumerable and configurable true}) leaves the source of k holding
\* proxy(v), raises structural_version exactly when k was absent, leaves
\* an array's length source as set(k, v) leaves it, and, where set gives k
\* a source too, leaves the same records as set(k, v).
C15_DefineLikeSet ==
    Wrapped(Root) =>
        \A k \in OpKeys(Root) : \A value \in SetValues(Root, k) :
            LET d == defineProperty_apply(Root, k, "value", value)
                w == set_apply(Root, k, value)
                m == marker[Root]
            IN  /\ d.res = Bool(TRUE)
                /\ SGet(d.meta[m].s, k) = Stored(value)
                /\ d.meta[m].v = IF set_has(Root, k) THEN Version ELSE Version + 1
                /\ IsArrayRoot => SGet(d.meta[m].s, "length") = SGet(w.meta[m].s, "length")
                /\ (Cell(Root, k) # NoCell \/ set_creates(Root, k)) =>
                      /\ d.meta = w.meta
                      /\ d.marker = w.marker /\ d.created = w.created

\* C16 (copied markers are not trusted): when a plain unfrozen object b
\* carries the metadata record of another object a, proxy(b) does not
\* return a's Proxy: it creates a record for b with target b and no
\* sources, returns a new Proxy for b, and leaves a's record, sources,
\* marker and Proxy as they were.
C16_CopiedMarkerNotTrusted ==
    \A a, b \in Objs :
        (/\ a # b
         /\ marker[b] = a
         /\ meta[a].t = Raw(a) /\ meta[a].p = Prx(a)
         /\ IsWrappable(Raw(b))) =>
            LET r == proxy(Raw(b))
            IN  /\ r.value # meta[a].p
                /\ r.value = Prx(b)
                /\ r.marker[b] = b
                /\ r.meta[b].t = Raw(b) /\ r.meta[b].p = Prx(b) /\ r.meta[b].s = <<>>
                /\ r.created[b] = created[b] + 1
                /\ r.meta[a] = meta[a]
                /\ r.marker[a] = marker[a] /\ r.created[a] = created[a]

\* the root's marker, with sources in its record, was copied onto object 2,
\* and object 2 was then wrapped: it has a record and a Proxy of its own
C16_Witness ==
    /\ last.op = "copy" /\ last.val = Raw(2) /\ last.res = Meta(Root)
    /\ Len(meta[Root].s) >= 1
    /\ marker[2] = 2 /\ created[2] = 1
    /\ meta[2].t = Raw(2) /\ meta[2].s = <<>>

\* C17 (update before notify in set): update_version (line 284) is the last
\* statement of set that changes anything, so what a dependent run by it
\* sees is the state set leaves. After a set that adds a key which was
\* not present, structural_version is raised and that state has the key's
\* source updated, the key in the target and in the enumerated keys, and,
\* for an index of an array, a length read of at least index + 1.
C17_UpdatedBeforeBump ==
    [][last'.op = "set" =>
        \A k \in OpKeys(Root) : \A value \in SetValues(Root, k) :
            (/\ last'.key = k /\ last'.val = value
             /\ set(Root, k, value)
             /\ ~set_has(Root, k)) =>
                /\ Version' = Version + 1
                /\ Cell(Root, k)' = Stored(value)
                /\ InTarget(Root, k)'
                /\ k \in SeqSet(ownKeys_result(Root))'
                /\ (IsArrayRoot /\ KeyNum(k) >= 0) =>
                      get_result(Root, "length")'[2] >= KeyNum(k) + 1]_vars

IsPrefix(p, q) == Len(p) <= Len(q) /\ \A n \in 1..Len(p) : p[n] = q[n]

\* C18 (source persistence): in every step, each metadata record keeps the
\* entries of its source map, under the same keys and in the same places
\* (a source is never removed and never replaced by another one; only its
\* value changes, possibly to UNINITIALIZED), new entries are only added
\* after them, no key is registered twice, the record's target and Proxy
\* stay, and deleteProperty adds no entry.
C18_SourcesPersist ==
    [][meta' # meta =>
        /\ \A i \in Objs : meta'[i] # meta[i] =>
            /\ IsPrefix(SKeys(meta[i].s), SKeys(meta'[i].s))
            /\ NoDuplicates(SKeys(meta'[i].s))
            /\ created[i] > 0 => (meta'[i].t = meta[i].t /\ meta'[i].p = meta[i].p)
        /\ last'.op = "deleteProperty" =>
            \A k \in DeleteKeys(Root) :
                deleteProperty(Root, k) => SKeys(meta'[Root].s) = SKeys(meta[Root].s)]_vars

\* two keys have sources, and the first one's was set to UNINITIALIZED by
\* deleteProperty: it is still in the map, in its place
C18_Witness ==
    /\ Wrapped(Root)
    /\ SKeys(MetaOf(Root).s) = <<"a", "b">>
    /\ Cell(Root, "a") = UNINITIALIZED /\ Cell(Root, "b") # UNINITIALIZED
    /\ last.op = "deleteProperty" /\ last.key = "a"

\* C19 (presence views agree, the tombstone never escapes): in every
\* reachable state, for every key that is not inherited and is not the
\* marker, has answers true exactly when the key is among the enumerated
\* keys and exactly when getOwnPropertyDescriptor returns a descriptor;
\* and neither get nor a returned descriptor carries UNINITIALIZED.
C19_PresenceViewsAgree ==
    Wrapped(Root) =>
        \A k \in OpKeys(Root) \ Inherited :
            /\ has_result(Root, k, TRUE) = has_result(Root, k, FALSE)
            /\ has_result(Root, k, FALSE) = (k \in SeqSet(ownKeys_result(Root)))
            /\ has_result(Root, k, FALSE) =
                  (getOwnPropertyDescriptor_result(Root, k) # NoDescriptor)
            /\ get_result(Root, k) # UNINITIALIZED
            /\ getOwnPropertyDescriptor_result(Root, k).value # UNINITIALIZED

\* what the observing handlers and a deleteProperty call return on the
\* Proxy of object i, a Proxy counted as the object it stands for
Observed(i) ==
    [k \in OpKeys(Root) |->
        <<Norm(get_result(i, k)), has_result(i, k, FALSE), has_result(i, k, TRUE),
          [getOwnPropertyDescriptor_result(i, k) EXCEPT !.value = Norm(@)],
          delete_exists(i, k)>>]
ObservingStep ==
    \/ \E k \in OpKeys(Root) : get(Root, k)
    \/ \E k \in OpKeys(Root), effect \in BOOLEAN : has(Root, k, effect)
    \/ \E k \in OpKeys(Root) : getOwnPropertyDescriptor(Root, k)
    \/ ownKeys(Root)

\* C20 (observation independence): a get, has, getOwnPropertyDescriptor or
\* ownKeys call changes no source's value and not structural_version; and
\* after the same sequence of set, deleteProperty and defineProperty calls,
\* with observing calls put anywhere between them in one run and none in
\* the other, every get, has, getOwnPropertyDescriptor, ownKeys and
\* deleteProperty call returns the same in both runs (a Proxy counted as
\* the object it stands for).
C20_ObservationIndependent ==
    [][/\ ObservingStep =>
            /\ Version' = Version
            /\ \A k \in OpKeys(Root) : Cell(Root, k) # NoCell => Cell(Root, k)' = Cell(Root, k)
       /\ Observed(Root)' = Observed(Twin)'
       /\ ownKeys_result(Root)' = ownKeys_result(Twin)']_vars

====
